---- MODULE Spec2Model ----
(***************************************************************************)
(* A model of the Pratt parser of expr_parser/parser.py and of the token   *)
(* stream it consumes (expr_parser/lexer.py).                              *)
(*                                                                         *)
(* The Python call stack under Parser.parse is the variable `stack`; every *)
(* action is the piece of code that runs between two calls of, or returns  *)
(* from, Parser.expression.  lexer.lex is a generator: the token at each   *)
(* position is fixed by the source text but is produced only when          *)
(* Parser.advance asks for it, so the model chooses it at that moment and  *)
(* records it in `source`.                                                 *)
(***************************************************************************)
EXTENDS Integers, Sequences, FiniteSets, TLC

VARIABLES
    symbol_table,   \* Parser.symbol_table: symbol id -> symbol class
    tokens,         \* Parser.tokens: "lex" (a live lexer generator) or "empty"
    token,          \* Parser.token: the lookahead symbol instance, or None
    source,         \* the lexer tokens the generator has yielded so far
    stack,          \* the frames of expression / nud / led below Parser.parse
    pc,             \* "idle", "running" (inside the try) or "finally"
    outcome,        \* what parse returns or raises, None while it runs
    steps,          \* number of actions taken by the parse in progress
    lastAdvance     \* the last call of Parser.advance: argument and effect

vars == <<symbol_table, tokens, token, source, stack, pc, outcome, steps, lastAdvance>>

\* ---------------------------------------------------------------- bounds
MaxLen == 5

MaxAdvance == 2

\* ------------------------------------------------------------ the lexer
None == [id |-> "None"]

Numbers == {"1", "2", "3"}

Names == {"f"}

InfixChars == {"+", "-", "*", "/", "^"}

PunctChars == {"(", ")", ","}

Token(token_type, value) == [token_type |-> token_type, value |-> value]

LexTokens ==
    {Token("<number>", v) : v \in Numbers} \cup
    {Token("<name>", v) : v \in Names} \cup
    {Token("<infix>", v) : v \in InfixChars} \cup
    {Token("<punct>", v) : v \in PunctChars}

\* What tokens.next() can do: yield a token, raise StopIteration, or raise
\* the lexer's exception for a character no pattern matches.
Pulls(self) ==
    IF self.tokens = "empty"
    THEN {[kind |-> "StopIteration"]}
    ELSE {[kind |-> "StopIteration"], [kind |-> "LexerException"]} \cup
         (IF Len(self.source) < MaxLen
          THEN {[kind |-> "token", tok |-> t] : t \in LexTokens}
          ELSE {})

\* ------------------------------------------------------- symbol classes
SymbolClass(sid, bp, cls) == [id |-> sid, lbp |-> bp, cls |-> cls]

ExprSymbolTable ==
    [sid \in {"<end>", "+", "*", "/", "^", "<number>", "<name>", "-", ",", ")", "("} |->
        CASE sid = "<end>"    -> SymbolClass(sid, 0, "Symbol")
          [] sid = "+"        -> SymbolClass(sid, 50, "Infix")
          [] sid = "*"        -> SymbolClass(sid, 60, "Infix")
          [] sid = "/"        -> SymbolClass(sid, 60, "Infix")
          [] sid = "^"        -> SymbolClass(sid, 70, "InfixR")
          [] sid = "<number>" -> SymbolClass(sid, 0, "Number")
          [] sid = "<name>"   -> SymbolClass(sid, 0, "Reference")
          [] sid = "-"        -> SymbolClass(sid, 50, "Minus")
          [] sid = ","        -> SymbolClass(sid, 0, "Symbol")
          [] sid = ")"        -> SymbolClass(sid, 0, "Symbol")
          [] sid = "("        -> SymbolClass(sid, 90, "FunctionCall")]

NudOfReturnsSelf(cls) ==
    CASE cls \in {"Number", "Reference", "Symbol", "Infix", "InfixR"} -> "Literal.nud"
      [] cls = "Minus"                   -> "Prefix.nud"
      [] cls = "FunctionCall"            -> "FunctionCall.nud"

\* Method resolution: which nud and led a class inherits.
NudOf(cls) ==
    CASE cls \in {"Number", "Reference"} -> "Literal.nud"
      [] cls = "Minus"                   -> "Prefix.nud"
      [] cls = "FunctionCall"            -> "FunctionCall.nud"
      [] OTHER                           -> "Symbol.nud"

LedOf(cls) ==
    CASE cls \in {"Infix", "InfixR", "Minus"} -> "Infix.led"
      [] cls = "FunctionCall"                 -> "FunctionCall.led"
      [] OTHER                                -> "Symbol.led"

rightAssoc(cls) == cls = "InfixR"

\* Symbol.__init__: value or self.id; "" stands for the default value=None.
\* pos is the index of the token in the stream (Token.pos), kept as history.
SymbolInit(sym, value, pos) ==
    [id |-> sym.id, lbp |-> sym.lbp, cls |-> sym.cls,
     value |-> IF value = "" THEN sym.id ELSE value,
     first |-> None, second |-> None, pos |-> pos]

\* ------------------------------------------------------ Parser.advance
UnexpectedText(value, tok) ==
    value # "" /\ value # tok.value

UnexpectedBeforeEnd(value, tok) ==
    value # "" /\ tok.id # "<end>" /\ value \notin {tok.value, tok.id}

\* The guard of advance: `value and value not in (tok.value, tok.id)'.
Unexpected(value, tok) ==
    value # "" /\ value \notin {tok.value, tok.id}

\* The lookup of advance: by the token's text first, then by its type.
Lookup(tok) ==
    IF tok.value \in DOMAIN symbol_table THEN symbol_table[tok.value]
    ELSE IF tok.token_type \in DOMAIN symbol_table THEN symbol_table[tok.token_type]
    ELSE None

\* The parser's mutable fields, as advance sees them.
Self == [token |-> token, tokens |-> tokens, source |-> source]

\* advance(value) when tokens.next() does p: the exception raised ("" when
\* none) and the new token, stream and yielded tokens.
Advance(self, value, p) ==
    LET same(exc, gen) ==
            [exc |-> exc, token |-> self.token, tokens |-> gen, source |-> self.source]
        pos == Len(self.source) + 1
    IN  IF Unexpected(value, self.token) THEN same("ParserError: Expected", self.tokens)
        ELSE CASE p.kind = "LexerException" -> same("LexerException", "empty")
               [] p.kind = "StopIteration" ->
                    [exc |-> "", tokens |-> "empty", source |-> self.source,
                     token |-> SymbolInit(symbol_table["<end>"], "", pos)]
               [] p.kind = "token" ->
                    IF Lookup(p.tok) = None
                    THEN [exc |-> "ParserError: Undefined token", token |-> self.token,
                          tokens |-> self.tokens, source |-> Append(self.source, p.tok)]
                    ELSE [exc |-> "", tokens |-> self.tokens,
                          source |-> Append(self.source, p.tok),
                          token |-> SymbolInit(Lookup(p.tok), p.tok.value, pos)]

\* The record of one call of advance.
AdvanceCall(self, value, p) ==
    [value |-> value, before |-> self.token, pull |-> p.kind, len |-> Len(self.source),
     after |-> Advance(self, value, p).token, exc |-> Advance(self, value, p).exc]

\* ------------------------------------------------------ the call stack
Frame(fn, self, rbp, mark) ==
    [fn |-> fn, self |-> self, rbp |-> rbp, left |-> None, mark |-> mark]

Top == stack[Len(stack)]

Below == stack[Len(stack) - 1]

\* The number of stream tokens that are no longer the lookahead.
Consumed(tok) == IF tok = None THEN 0 ELSE tok.pos - 1

\* Return node to the expression frame that is k frames below the top.
ReturnTo(k, node) ==
    LET s == SubSeq(stack, 1, Len(stack) - k)
    IN  [s EXCEPT ![Len(s)].left = node]

\* Infix.led: self.first = left, and later self.second = the right operand.
InfixFirst(self, left) == [self EXCEPT !.first = left]

InfixSecond(self, right) == [self EXCEPT !.second = right]

PrefixSecond(self, operand) == [self EXCEPT !.second = operand]

\* Prefix.nud: self.first = the operand.
PrefixFirst(self, operand) == [self EXCEPT !.first = operand]

LoopCondNoFloor(rbp, tok) == 0 < tok.lbp

\* The test of the loop of Parser.expression.
LoopCond(rbp, tok) == rbp < tok.lbp

InfixRbpLeft(self) == self.lbp

\* Infix.led: the floor of the right operand.
InfixRbp(self) == self.lbp - (IF rightAssoc(self.cls) THEN 1 ELSE 0)

PrefixRbpLow == 50 + 10

\* Prefix.nud: the fixed floor of the operand.
PrefixRbp == 80

AtEntry ==
    /\ pc = "running" /\ Len(stack) > 0
    /\ Top.fn = "expression" /\ Top.left = None

AtLoop ==
    /\ pc = "running" /\ Len(stack) > 0
    /\ Top.fn = "expression" /\ Top.left # None

AtReturn == AtLoop /\ ~LoopCond(Top.rbp, token)

NoOutcome == [kind |-> "none", exc |-> "", tree |-> None]

\* An exception leaves every frame; parse's finally block runs next.
Raise(exc, a) ==
    /\ outcome' = [kind |-> "error", exc |-> exc, tree |-> None]
    /\ stack' = <<>>
    /\ pc' = "finally"
    /\ token' = a.token /\ tokens' = a.tokens /\ source' = a.source

\* advance went through: install its token and go on with the new stack.
Go(a, newstack) ==
    IF a.exc # "" THEN Raise(a.exc, a)
    ELSE /\ token' = a.token /\ tokens' = a.tokens /\ source' = a.source
         /\ stack' = newstack
         /\ UNCHANGED <<pc, outcome>>

Tick == steps' = steps + 1 /\ UNCHANGED <<symbol_table, lastAdvance>>

\* ---------------------------------------------------------- Parser.parse
\* parse, up to the call of expression(0).
ParseBegin(p) ==
    /\ pc = "idle"
    /\ LET self == [token |-> token, tokens |-> "lex", source |-> <<>>]
           a == Advance(self, "", p)
       IN  /\ p \in Pulls(self)
           /\ IF a.exc # "" THEN Raise(a.exc, a)
              ELSE /\ token' = a.token /\ tokens' = a.tokens /\ source' = a.source
                   /\ stack' = <<Frame("expression", None, 0, Consumed(a.token))>>
                   /\ pc' = "running"
                   /\ outcome' = NoOutcome
    /\ steps' = 1
    /\ UNCHANGED <<symbol_table, lastAdvance>>

\* expression(0) returns to parse.
ParseReturn ==
    /\ AtReturn /\ Len(stack) = 1
    /\ outcome' = [kind |-> "tree", exc |-> "", tree |-> Top.left]
    /\ stack' = <<>>
    /\ pc' = "finally"
    /\ Tick
    /\ UNCHANGED <<token, tokens, source>>

FinallyResetOnReturn(self, kind) ==
    IF kind = "tree" THEN [tokens |-> "empty", token |-> None]
    ELSE [tokens |-> self.tokens, token |-> self.token]

\* The finally block of parse: the stream and the token it leaves behind,
\* on the return path and on the exception path alike.
FinallyReset(self, kind) == [tokens |-> "empty", token |-> None]

ParseFinally ==
    /\ pc = "finally"
    /\ tokens' = FinallyReset(Self, outcome.kind).tokens
    /\ token' = FinallyReset(Self, outcome.kind).token
    /\ pc' = "idle"
    /\ source' = <<>>
    /\ steps' = 0
    /\ UNCHANGED <<symbol_table, stack, outcome, lastAdvance>>

\* ----------------------------------------------------- Parser.expression
\* tok = self.token; self.advance(); left = tok.nud(), by the class of tok.
LiteralNud(p) ==
    /\ AtEntry /\ NudOf(token.cls) = "Literal.nud"
    /\ p \in Pulls(Self)
    /\ Go(Advance(Self, "", p), [stack EXCEPT ![Len(stack)].left = token])
    /\ Tick

SymbolNud(p) ==
    /\ AtEntry /\ NudOf(token.cls) = "Symbol.nud"
    /\ p \in Pulls(Self)
    /\ LET a == Advance(Self, "", p)
       IN  Raise(IF a.exc # "" THEN a.exc ELSE "ParserError: Symbol action undefined", a)
    /\ Tick

PrefixNud(p) ==
    /\ AtEntry /\ NudOf(token.cls) = "Prefix.nud"
    /\ p \in Pulls(Self)
    /\ LET a == Advance(Self, "", p)
       IN  Go(a, stack \o <<Frame("Prefix.nud", token, 0, Consumed(token)),
                            Frame("expression", None, PrefixRbp, Consumed(a.token))>>)
    /\ Tick

FunctionCallNud(p) ==
    /\ AtEntry /\ NudOf(token.cls) = "FunctionCall.nud"
    /\ p \in Pulls(Self)
    /\ LET a == Advance(Self, "", p)
       IN  Go(a, stack \o <<Frame("FunctionCall.nud", token, 0, Consumed(token)),
                            Frame("expression", None, 0, Consumed(a.token))>>)
    /\ Tick

\* One turn of the loop: tok = self.token; self.advance(); tok.led(left).
InfixLed(p) ==
    /\ AtLoop /\ LoopCond(Top.rbp, token) /\ LedOf(token.cls) = "Infix.led"
    /\ p \in Pulls(Self)
    /\ LET a == Advance(Self, "", p)
           self == InfixFirst(token, Top.left)
       IN  Go(a, stack \o <<Frame("Infix.led", self, 0, Consumed(token)),
                            Frame("expression", None, InfixRbp(self), Consumed(a.token))>>)
    /\ Tick

FunctionCallLed(p) ==
    /\ AtLoop /\ LoopCond(Top.rbp, token) /\ LedOf(token.cls) = "FunctionCall.led"
    /\ p \in Pulls(Self)
    /\ LET a == Advance(Self, "", p)
           self == [token EXCEPT !.first = Top.left, !.second = <<>>]
       IN  Go(a, Append(stack, Frame("FunctionCall.led", self, 0, Consumed(token))))
    /\ Tick

\* ------------------------------------------- returns of Parser.expression
\* Infix.led: self.second = expression(rbp); return self.
InfixLedReturn ==
    /\ AtReturn /\ Len(stack) > 1 /\ Below.fn = "Infix.led"
    /\ stack' = ReturnTo(2, InfixSecond(Below.self, Top.left))
    /\ Tick
    /\ UNCHANGED <<token, tokens, source, pc, outcome>>

\* Prefix.nud: self.first = expression(80); return self.
PrefixNudReturn ==
    /\ AtReturn /\ Len(stack) > 1 /\ Below.fn = "Prefix.nud"
    /\ stack' = ReturnTo(2, PrefixFirst(Below.self, Top.left))
    /\ Tick
    /\ UNCHANGED <<token, tokens, source, pc, outcome>>

\* FunctionCall.nud: e = expression(0); advance(")"); return e.
GroupClose(p) ==
    /\ AtReturn /\ Len(stack) > 1 /\ Below.fn = "FunctionCall.nud"
    /\ p \in Pulls(Self)
    /\ Go(Advance(Self, ")", p), ReturnTo(2, Top.left))
    /\ Tick

\* FunctionCall.led, the loop test: another argument, or advance(")").
CallNextArg ==
    /\ pc = "running" /\ Len(stack) > 0 /\ Top.fn = "FunctionCall.led"
    /\ token.value # ")"
    /\ stack' = Append(stack, Frame("expression", None, 0, Consumed(token)))
    /\ Tick
    /\ UNCHANGED <<token, tokens, source, pc, outcome>>

CallClose(p) ==
    /\ pc = "running" /\ Len(stack) > 0 /\ Top.fn = "FunctionCall.led"
    /\ token.value = ")"
    /\ p \in Pulls(Self)
    /\ Go(Advance(Self, ")", p), ReturnTo(1, Top.self))
    /\ Tick

\* FunctionCall.led: args.append(expression(0)), then break and
\* advance(")"), or advance(",") and back to the loop test.
CallBreak(p) ==
    /\ AtReturn /\ Len(stack) > 1 /\ Below.fn = "FunctionCall.led"
    /\ token.value # ","
    /\ p \in Pulls(Self)
    /\ Go(Advance(Self, ")", p),
          ReturnTo(2, [Below.self EXCEPT !.second = Append(@, Top.left)]))
    /\ Tick

CallComma(p) ==
    /\ AtReturn /\ Len(stack) > 1 /\ Below.fn = "FunctionCall.led"
    /\ token.value = ","
    /\ p \in Pulls(Self)
    /\ Go(Advance(Self, ",", p),
          [SubSeq(stack, 1, Len(stack) - 1) EXCEPT
              ![Len(stack) - 1].self.second = Append(@, Top.left)])
    /\ Tick

\* ------------------------------------------------------ specifications
AllPulls == Pulls([tokens |-> "lex", source |-> <<>>])

Init ==
    /\ symbol_table = ExprSymbolTable
    /\ tokens = "empty"
    /\ token = None
    /\ source = <<>>
    /\ stack = <<>>
    /\ pc = "idle"
    /\ outcome = NoOutcome
    /\ steps = 0
    /\ lastAdvance = None

Next ==
    \/ \E p \in AllPulls : ParseBegin(p)
    \/ ParseReturn
    \/ ParseFinally
    \/ \E p \in AllPulls : LiteralNud(p)
    \/ \E p \in AllPulls : SymbolNud(p)
    \/ \E p \in AllPulls : PrefixNud(p)
    \/ \E p \in AllPulls : FunctionCallNud(p)
    \/ \E p \in AllPulls : InfixLed(p)
    \/ \E p \in AllPulls : FunctionCallLed(p)
    \/ InfixLedReturn
    \/ PrefixNudReturn
    \/ \E p \in AllPulls : GroupClose(p)
    \/ CallNextArg
    \/ \E p \in AllPulls : CallClose(p)
    \/ \E p \in AllPulls : CallBreak(p)
    \/ \E p \in AllPulls : CallComma(p)

Spec == Init /\ [][Next]_vars

\* advance called directly, as the nud and led of a grammar's symbols do, on
\* a parser whose stream parse has just installed.
Expected == {"", ")", ",", "<number>", "<punct>", "<end>"}

InitAdvance ==
    /\ symbol_table = ExprSymbolTable
    /\ tokens = "lex"
    /\ token = None
    /\ source = <<>>
    /\ stack = <<>>
    /\ pc = "advance"
    /\ outcome = NoOutcome
    /\ steps = 0
    /\ lastAdvance = None

CallAdvance(value, p) ==
    /\ pc = "advance" /\ steps < MaxAdvance
    /\ value = "" \/ token # None
    /\ p \in Pulls(Self)
    /\ token' = Advance(Self, value, p).token
    /\ tokens' = Advance(Self, value, p).tokens
    /\ source' = Advance(Self, value, p).source
    /\ lastAdvance' = AdvanceCall(Self, value, p)
    /\ steps' = steps + 1
    /\ UNCHANGED <<symbol_table, stack, pc, outcome>>

NextAdvance == \E value \in Expected, p \in AllPulls : CallAdvance(value, p)

SpecAdvance == InitAdvance /\ [][NextAdvance]_vars

\* -------------------------------------------------------------- eval
\* float(self.value) of a number token.
Float(value) ==
    CASE value = "1" -> 1 [] value = "2" -> 2 [] value = "3" -> 3

RECURSIVE Pow(_, _)
Pow(b, e) == IF e = 0 THEN 1 ELSE b * Pow(b, e - 1)

Val(v) == [err |-> "", v |-> v]

Err(msg) == [err |-> msg, v |-> 0]

\* The binary operators of OP_REGISTRY on floats with integral values; a
\* result that is not integral is outside the numbers of this model.
OP_REGISTRY(op, x, y) ==
    CASE op = "+" -> Val(x + y)
      [] op = "-" -> Val(x - y)
      [] op = "*" -> Val(x * y)
      [] op = "/" -> IF y = 0 THEN Err("ZeroDivisionError")
                     ELSE IF x % y = 0 THEN Val(x \div y) ELSE Err("not integral")
      [] op = "^" -> IF y >= 0 THEN Val(Pow(x, y))
                     ELSE IF x = 0 THEN Err("ZeroDivisionError")
                     ELSE IF x = 1 THEN Val(1) ELSE Err("not integral")

OpNames == {"+", "-", "*", "/", "^"}

\* math.sqrt, math.log and the log2 lambda of OP_REGISTRY, where the result
\* is integral.
Math(fn, x, base) ==
    CASE fn = "sqrt" ->
            IF x < 0 THEN Err("ValueError")
            ELSE IF \E r \in 0..x : r * r = x
            THEN Val(CHOOSE r \in 0..x : r * r = x) ELSE Err("not integral")
      [] fn \in {"log", "log2"} ->
            IF x <= 0 \/ base <= 0 THEN Err("ValueError")
            ELSE IF base = 1 THEN Err("ZeroDivisionError")
            ELSE IF \E e \in 0..x : Pow(base, e) = x
            THEN Val(CHOOSE e \in 0..x : Pow(base, e) = x) ELSE Err("not integral")

\* OP_REGISTRY[name](*args): the arity of each entry, then its value.
Apply(name, args) ==
    CASE name \in OpNames ->
            IF Len(args) = 2 THEN OP_REGISTRY(name, args[1], args[2]) ELSE Err("TypeError")
      [] name = "sqrt" ->
            IF Len(args) = 1 THEN Math(name, args[1], 0) ELSE Err("TypeError")
      [] name = "log2" ->
            IF Len(args) = 1 THEN Math(name, args[1], 2) ELSE Err("TypeError")
      [] name = "log" ->
            IF Len(args) = 2 THEN Math(name, args[1], args[2])
            ELSE IF Len(args) = 1
            THEN (IF args[1] <= 0 THEN Err("ValueError")
                  ELSE IF args[1] = 1 THEN Val(0) ELSE Err("not integral"))
            ELSE Err("TypeError")

\* node.eval(doc); doc maps names to numbers.  A call looks the text of its
\* callee up in OP_REGISTRY, then evaluates the arguments from left to right.
RECURSIVE Eval(_, _), EvalAll(_, _)
Eval(node, doc) ==
    CASE node.cls = "Number" -> Val(Float(node.value))
      [] node.cls = "Reference" ->
            IF node.value \in DOMAIN doc THEN Val(doc[node.value])
            ELSE Err("ParserError: Missing reference")
      [] node.cls = "Minus" /\ node.second = None ->
            LET a == Eval(node.first, doc)
            IN  IF a.err # "" THEN a ELSE Val(0 - a.v)
      [] node.cls \in {"Infix", "InfixR", "Minus"} ->
            LET a == Eval(node.first, doc)
                b == Eval(node.second, doc)
            IN  IF a.err # "" THEN a
                ELSE IF b.err # "" THEN b
                ELSE OP_REGISTRY(node.value, a.v, b.v)
      [] node.cls = "FunctionCall" ->
            IF node.first.value \notin OpNames \cup {"sqrt", "log", "log2"}
            THEN Err("ParserError: Invalid function")
            ELSE LET args == EvalAll(node.second, doc)
                 IN  IF args.err # "" THEN Err(args.err)
                     ELSE Apply(node.first.value, args.v)

EvalAll(nodes, doc) ==
    IF nodes = <<>> THEN [err |-> "", v |-> <<>>]
    ELSE LET a == Eval(Head(nodes), doc)
             rest == EvalAll(Tail(nodes), doc)
         IN  IF a.err # "" THEN [err |-> a.err, v |-> <<>>]
             ELSE IF rest.err # "" THEN rest
             ELSE [err |-> "", v |-> <<a.v>> \o rest.v]

\* ------------------------------------------------- reading a parse tree
\* The children of a node, in order: first and second, or callee and
\* arguments.
Kids(n) ==
    IF n.cls = "FunctionCall" THEN <<n.first>> \o n.second
    ELSE IF n.first = None THEN <<>>
    ELSE IF n.second = None THEN <<n.first>>
    ELSE <<n.first, n.second>>

RECURSIVE Nodes(_)
Nodes(n) == {n} \cup UNION {Nodes(Kids(n)[i]) : i \in DOMAIN Kids(n)}

\* <<p, c, i>>: the node of token c is the i-th child of the node of token p.
RECURSIVE Edges(_)
Edges(n) ==
    {<<n.pos, Kids(n)[i].pos, i>> : i \in DOMAIN Kids(n)} \cup
    UNION {Edges(Kids(n)[i]) : i \in DOMAIN Kids(n)}

\* The parse in progress has returned a tree and finally has not run yet.
Returned == pc = "finally" /\ outcome.kind = "tree"

Raised == pc = "finally" /\ outcome.kind = "error"

Texts == [i \in DOMAIN source |-> source[i].value]

Operands == Numbers \cup Names

\* operand (operator operand)*, the operators being + - * / ^
PlainBinary ==
    /\ Len(source) % 2 = 1
    /\ \A i \in DOMAIN source :
          IF i % 2 = 1 THEN source[i].value \in Operands
          ELSE source[i].value \in InfixChars

Lbp(i) == symbol_table[source[i].value].lbp

NoDoc == [n \in {} |-> 0]

\* ------------------------------------------------------------- claims
\* C1: precedence.  In the tree of a parenthesis-free expression over
\* numbers, names and the binary operators, the operand between two
\* adjacent operators of different binding power is a child of the one
\* with the higher binding power, whichever comes first; every such
\* expression that ends with the end of input is parsed; "1 + 2 * 3"
\* evaluates to 7.
C1_Precedence ==
    /\ (pc = "finally" /\ PlainBinary /\ token.id = "<end>") => outcome.kind = "tree"
    /\ (Returned /\ PlainBinary) =>
        /\ \A i \in DOMAIN source :
              (i % 2 = 0 /\ i + 2 \in DOMAIN source) =>
                  /\ Lbp(i) > Lbp(i + 2) => <<i, i + 1, 2>> \in Edges(outcome.tree)
                  /\ Lbp(i) < Lbp(i + 2) => <<i + 2, i + 1, 1>> \in Edges(outcome.tree)
        /\ Texts = <<"1", "+", "2", "*", "3">> => Eval(outcome.tree, NoDoc) = Val(7)
        /\ Texts = <<"1", "*", "2", "+", "3">> => Eval(outcome.tree, NoDoc) = Val(5)

C1_Witness ==
    /\ Returned /\ PlainBinary
    /\ Texts = <<"1", "+", "2", "*", "3">>
    /\ outcome.tree.value = "+"

\* C2: associativity.  Between two adjacent operators of equal binding
\* power the operand belongs to the left one when they are left-associative
\* and to the right one when they are right-associative, and the left
\* operator is then the first child of the right one (left) or the right
\* one the second child of the left one (right); the floor handed to the
\* right operand is lbp, or lbp - 1 for ^; "2 ^ 3 ^ 2" evaluates to 512 and
\* "3 - 2" to 1.
C2_Associativity ==
    /\ \A k \in 1..(Len(stack) - 1) :
          stack[k].fn = "Infix.led" =>
              stack[k + 1].rbp = IF stack[k].self.value = "^"
                                 THEN stack[k].self.lbp - 1 ELSE stack[k].self.lbp
    /\ (Returned /\ PlainBinary) =>
        /\ \A i \in DOMAIN source :
              (i % 2 = 0 /\ i + 2 \in DOMAIN source /\ Lbp(i) = Lbp(i + 2)) =>
                  IF source[i].value = "^"
                  THEN {<<i + 2, i + 1, 1>>, <<i, i + 2, 2>>} \subseteq Edges(outcome.tree)
                  ELSE {<<i, i + 1, 2>>, <<i + 2, i, 1>>} \subseteq Edges(outcome.tree)
        /\ Texts = <<"2", "^", "3", "^", "2">> => Eval(outcome.tree, NoDoc) = Val(512)
        /\ Texts = <<"3", "-", "2">> => Eval(outcome.tree, NoDoc) = Val(1)
        /\ Texts = <<"3", "-", "2", "-", "1">> => Eval(outcome.tree, NoDoc) = Val(0)

C2_Witness ==
    /\ Returned
    /\ Texts = <<"2", "^", "3", "^", "2">>
    /\ outcome.tree.second.value = "^"

\* The source is "- a ^ b" for two operands a and b.
MinusPow ==
    /\ Len(source) = 4
    /\ source[1].value = "-" /\ source[2].value \in Operands
    /\ source[3].value = "^" /\ source[4].value \in Operands

\* C3 as stated: "-a^b" is parsed as -(a^b), the negation being the root
\* and the ^ node its operand.
C3_Stated ==
    (Returned /\ MinusPow) =>
        /\ outcome.tree.value = "-" /\ outcome.tree.second = None
        /\ outcome.tree.first.value = "^"

\* C3: the prefix action of '-' parses its operand with the fixed floor 80,
\* above the binding power of every binary operator, so that "-a^b" is
\* parsed as (-a)^b: the ^ node is the root and the negation, with the one
\* operand a, is its first child; "-2^2" evaluates to 4.
C3_NegationBindsTighter ==
    /\ \A k \in 1..(Len(stack) - 1) :
          stack[k].fn = "Prefix.nud" =>
              /\ stack[k + 1].rbp = 80
              /\ \A sid \in DOMAIN symbol_table :
                    LedOf(symbol_table[sid].cls) = "Infix.led" =>
                        symbol_table[sid].lbp < stack[k + 1].rbp
    /\ (Returned /\ MinusPow) =>
        /\ outcome.tree.value = "^"
        /\ outcome.tree.first.value = "-" /\ outcome.tree.first.second = None
        /\ outcome.tree.first.first.pos = 2
        /\ outcome.tree.second.pos = 4
        /\ Texts = <<"-", "2", "^", "2">> => Eval(outcome.tree, NoDoc) = Val(4)

C3_Witness ==
    /\ Returned /\ Texts = <<"-", "2", "^", "2">>
    /\ outcome.tree.value = "^"

\* C4: parse returns a tree only when the lookahead is the end-of-input
\* token at the moment the top-level expression(0) returns.
C4_NoPartialTree == Returned => token.id = "<end>"

\* C7: in a returned tree, a '-' token that stands at the start of the
\* input or right after an operator, '(' or ',' is a negation with exactly
\* one operand, and a '-' token that stands after an operand or ')' is a
\* subtraction with both operands; every '-' taken from the stream is in
\* the tree; "-3 + 1" evaluates to -2 and "-(3)" to -3.
StartsExpression(i) ==
    i = 1 \/ source[i - 1].value \in InfixChars \cup {"(", ","}

C5_ResetAndReuse ==
    /\ symbol_table = ExprSymbolTable
    /\ pc = "idle" =>
          /\ tokens = "empty" /\ token = None /\ stack = <<>>
          /\ Self = [token |-> None, tokens |-> "empty", source |-> <<>>]

C5_Witness ==
    /\ pc = "idle" /\ outcome.kind = "error"
    /\ outcome.exc = "ParserError: Expected"

\* The type tag of the lexer token a symbol instance was made from.
TypeTag(sym) == IF sym.id = "<end>" THEN "<end>" ELSE source[sym.pos].token_type

\* The registry symbol of lexer token tok: found by text, else by type.
RegistryKey(tok) ==
    IF tok.value \in DOMAIN ExprSymbolTable THEN tok.value ELSE tok.token_type

\* C6 as stated: advance(expected) raises exactly when expected is given
\* and is neither the text nor the type tag of the current token.
C6_Stated ==
    (lastAdvance # None /\ lastAdvance.value # "") =>
        (lastAdvance.exc = "ParserError: Expected"
            <=> lastAdvance.value \notin {lastAdvance.before.value, TypeTag(lastAdvance.before)})

\* C6: advance(expected) raises "Expected ..." without pulling a token and
\* without changing the current token, unless expected is the text of the
\* current token or the key its symbol is registered under (the text for
\* operators and punctuation, the type tag for numbers and names, "<end>"
\* for the end of input); otherwise it installs the registry symbol of the
\* next stream token, or the end-of-input symbol when the stream is
\* exhausted, and a lexical error leaves the current token as it was.
C6_Advance ==
    lastAdvance # None =>
        LET c == lastAdvance
        IN  IF c.value # "" /\ c.value # c.before.value /\ c.value # c.before.id
            THEN /\ c.exc = "ParserError: Expected"
                 /\ token = c.before /\ Len(source) = c.len
            ELSE CASE c.pull = "token" ->
                        /\ c.exc = "" /\ Len(source) = c.len + 1
                        /\ token.id = RegistryKey(source[Len(source)])
                        /\ token.value = source[Len(source)].value
                        /\ token.lbp = ExprSymbolTable[token.id].lbp
                        /\ token.cls = ExprSymbolTable[token.id].cls
                   [] c.pull = "StopIteration" ->
                        /\ c.exc = "" /\ Len(source) = c.len
                        /\ token.id = "<end>" /\ token.value = "<end>"
                        /\ tokens = "empty"
                   [] c.pull = "LexerException" ->
                        /\ c.exc = "LexerException"
                        /\ token = c.before /\ Len(source) = c.len

C6_Witness ==
    /\ lastAdvance # None
    /\ lastAdvance.value = "<number>" /\ lastAdvance.before.value = "1"
    /\ lastAdvance.exc = "" /\ token.id = "<end>"

\* The number of '(' among the first k tokens that no later ')' among them
\* closes.
RECURSIVE OpenAfter(_)
OpenAfter(k) ==
    IF k = 0 THEN 0
    ELSE IF source[k].value = "(" THEN OpenAfter(k - 1) + 1
    ELSE IF source[k].value = ")" /\ OpenAfter(k - 1) > 0 THEN OpenAfter(k - 1) - 1
    ELSE OpenAfter(k - 1)

\* C8: parse returns no tree for a token sequence in which a '(' has no
\* matching ')': when the end of input is reached with a '(' still open,
\* whether it opened a group or a call, the parse has raised.
C8_UnmatchedGrouping ==
    /\ Returned => OpenAfter(Len(source)) = 0
    /\ (pc = "finally" /\ token.id = "<end>" /\ OpenAfter(Len(source)) > 0) =>
          /\ outcome.kind = "error"
          /\ outcome.exc \in {"ParserError: Expected", "ParserError: Symbol action undefined"}

C8_Witness ==
    /\ Raised /\ token.id = "<end>"
    /\ Texts = <<"f", "(", "1", ",", "2">>
    /\ outcome.exc = "ParserError: Expected"

\* C9: a returned tree has a call node only where a name stands directly
\* before '(' and the parentheses enclose one or more expressions
\* separated by single commas: no empty argument list, no trailing comma,
\* no callee that is not a name.
C9_CallGrammar ==
    Returned =>
        /\ \A n \in Nodes(outcome.tree) :
              n.cls = "FunctionCall" =>
                  /\ n.first.cls = "Reference"
                  /\ source[n.pos - 1].token_type = "<name>"
                  /\ Len(n.second) >= 1
        /\ \A i \in DOMAIN source :
              (source[i].value = ")" /\ i < token.pos) =>
                  source[i - 1].value \notin {"(", ","}

\* C10: a parse makes progress and stops.  Every expression() call that has
\* got past its nud, and every turn of the continuation loop, has taken at
\* least one token off the stream since it began; no token is taken twice;
\* the end-of-input token never becomes an operand; a parse in progress
\* can always take a step (no token with a binding power lacks a led); and the number of steps is at most twice the
\* number of tokens pulled, plus two.
C10_Progress ==
    /\ \A k \in DOMAIN stack :
          /\ stack[k].mark <= Consumed(token)
          /\ (k < Len(stack) \/ stack[k].left # None \/ stack[k].fn # "expression")
                => stack[k].mark < Consumed(token)
          /\ stack[k].left # None => stack[k].left.id # "<end>"
          /\ k > 1 => stack[k - 1].mark <= stack[k].mark
    /\ pc = "running" =>
          /\ token.pos \in {Len(source), Len(source) + 1}
          /\ tokens = "empty" <=> token.id = "<end>"
          /\ AtEntry \/ AtLoop \/ Top.fn = "FunctionCall.led"
          /\ (AtLoop /\ LoopCond(Top.rbp, token)) =>
                LedOf(token.cls) \in {"Infix.led", "FunctionCall.led"}
          /\ (AtReturn /\ Len(stack) > 1) =>
                Below.fn \in {"Infix.led", "Prefix.nud", "FunctionCall.nud", "FunctionCall.led"}
    /\ pc \in {"running", "finally"} => steps <= 2 * Len(source) + 2
    /\ Returned =>
          /\ \A n \in Nodes(outcome.tree) : n.id # "<end>" /\ n.pos < token.pos
          /\ \A n, m \in Nodes(outcome.tree) : n.pos = m.pos => n = m

C10_Witness ==
    /\ Raised /\ token.id = "<end>" /\ tokens = "empty"
    /\ Texts = <<"f", "(", "1", ",">>
    /\ outcome.exc = "ParserError: Symbol action undefined"

====
